---- MODULE Spec2Model ----
(***************************************************************************)
(* Model of the YT8M model builders:                                       *)
(*   official/projects/yt8m/modeling/nn_layers.py   (LogisticModel,        *)
(*                                                    MoeModel)            *)
(*   official/projects/yt8m/modeling/yt8m_model.py  (DbofModel)            *)
(*                                                                         *)
(* Tensors are symbolic: a shape and, in row-major order, one symbolic     *)
(* term per element.  A framework primitive (Dense, reshape, softmax,      *)
(* slice, multiply, reduce_sum) is an operator on such tensors that        *)
(* rearranges or wraps the terms the way the primitive rearranges or       *)
(* combines the numbers.  Floats are exact rationals <<num, den>>.         *)
(***************************************************************************)
EXTENDS Integers, Sequences, FiniteSets, TLC

VARIABLES
    pc,        \* position of the DbofModel constructor
    cfg,       \* the constructor's arguments (params, num_classes, ...)
    self,      \* the fields get_dbof stores on the object
    built,     \* the layer-construction calls issued so far, in order
    model_input, \* the local `model_input` of get_dbof
    input_data,  \* the local `input_data` of get_dbof
    activation,\* the local `activation` of get_dbof (first a name, then a tensor)
    agg,       \* what get_aggregation did: the call and its return value
    model,     \* what super().__init__ received
    mpc,       \* position of a direct MoeModel/LogisticModel create_model call
    margs,     \* the arguments of that call
    mret       \* its return value

vars ==
    <<pc, cfg, self, built, model_input, input_data, activation, agg, model,
      mpc, margs, mret>>
dbofVars == <<pc, cfg, self, built, model_input, input_data, activation, agg, model>>
moeVars == <<mpc, margs, mret>>

----------------------------------------------------------------------------
(* Bounds of the model. *)
MaxBatch == 2
MaxVocab == 2
MaxMixtures == 2
MaxClusterSize == 1
NumFrames == 2
NumFeatures == 2
HiddenSize == 2

----------------------------------------------------------------------------
(* Rationals standing for Python floats. *)
Rat(n, d) == <<n, d>>
RatEq(a, b) == a[1] * b[2] = b[1] * a[2]
\* x / 2.0
HalfOf(x) == <<x[1], x[2] * 2>>
\* Python truthiness of a float: every value but 0.0
Truthy(x) == x[1] # 0

\* Optional[float]
None == [isNone |-> TRUE, val |-> Rat(0, 1)]
Some(x) == [isNone |-> FALSE, val |-> x]

----------------------------------------------------------------------------
(* Symbolic tensors. *)
RECURSIVE Prod(_)
Prod(s) == IF s = <<>> THEN 1 ELSE Head(s) * Prod(Tail(s))

Tensor(shape, data) == [kind |-> "tensor", shape |-> shape, data |-> data]
\* the framework raised instead of returning a tensor
Raised == [kind |-> "raised", shape |-> <<>>, data |-> <<>>]
\* a Python str where a tensor is expected
Str == [kind |-> "str", shape |-> <<>>, data |-> <<>>]
IsTensor(t) == t.kind = "tensor"

\* An elementwise function (sigmoid, an activation, a normalization, a bias
\* add, a gate): same shape, every term wrapped.
Map(fn, t) ==
    IF ~IsTensor(t) THEN Raised
    ELSE Tensor(t.shape, [f \in 1..Len(t.data) |-> [fn |-> fn, x |-> t.data[f]]])

\* Product of the dimensions after axis a (1-based): the row-major stride.
Stride(shape, a) == Prod(SubSeq(shape, a + 1, Len(shape)))
\* Coordinate along axis a of the element at 0-based flat offset f.
Coord(shape, a, f) == (f \div Stride(shape, a)) % shape[a]
\* Flat offset of the element that differs from f only in coordinate j on axis a.
Moved(shape, a, f, j) == f + (j - Coord(shape, a, f)) * Stride(shape, a)

\* A Keras symbolic input: a shape and no values yet.
SymbolicInput(shape) ==
    Tensor(shape, [f \in 1..Prod(shape) |-> [layer |-> "input", row |-> 0, unit |-> f - 1]])

\* layers.Dense(units)(t): maps the last axis to `units` outputs; output
\* (row, unit) is its own symbolic term.
Dense(name, units, t) ==
    IF ~IsTensor(t) \/ Len(t.shape) = 0 \/ units < 1 THEN Raised
    ELSE LET lead == SubSeq(t.shape, 1, Len(t.shape) - 1)
             rows == Prod(lead)
         IN  Tensor(Append(lead, units),
                    [f \in 1..(rows * units) |->
                        [layer |-> name, row |-> (f - 1) \div units,
                         unit |-> (f - 1) % units]])

\* tf.reshape(t, shape) where shape[1] = -1: the first dimension is inferred;
\* the elements keep their row-major order.
ReshapeInferFirst(t, rest) ==
    IF ~IsTensor(t) \/ Prod(rest) = 0 \/ Len(t.data) % Prod(rest) # 0 THEN Raised
    ELSE Tensor(<<Len(t.data) \div Prod(rest)>> \o rest, t.data)

\* tf.nn.softmax(t, axis=1) (0-based axis 1 is the 2nd dimension): every
\* element is normalised by the elements that share all its other coordinates.
SoftmaxAxis1(t) ==
    IF ~IsTensor(t) \/ Len(t.shape) < 2 THEN Raised
    ELSE Tensor(t.shape,
                [f \in 1..Len(t.data) |->
                    [num |-> t.data[f],
                     den |-> {t.data[Moved(t.shape, 2, f - 1, j) + 1] :
                                  j \in 0..(t.shape[2] - 1)}]])

\* tf.nn.sigmoid(t): elementwise.
Sigmoid(t) == Map("sigmoid", t)

\* t[:, lo:hi]: keeps coordinates lo..hi-1 of the 2nd dimension.
SliceAxis1(t, lo, hi) ==
    IF ~IsTensor(t) \/ Len(t.shape) < 2 THEN Raised
    ELSE LET h     == IF hi > t.shape[2] THEN t.shape[2] ELSE hi
             l     == IF lo > h THEN h ELSE lo
             n     == h - l
             st    == Stride(t.shape, 2)
             shape == [t.shape EXCEPT ![2] = n]
         IN  Tensor(shape,
                    [g \in 1..Prod(shape) |->
                        t.data[((g - 1) \div (n * st)) * (t.shape[2] * st)
                               + l * st + ((g - 1) % (n * st)) + 1]])

\* a * b for tensors of one shape: elementwise product.  (Operands of
\* different shapes would broadcast or raise; the builders never produce them.)
Multiply(a, b) ==
    IF ~IsTensor(a) \/ ~IsTensor(b) \/ a.shape # b.shape THEN Raised
    ELSE Tensor(a.shape, [f \in 1..Len(a.data) |-> [gate |-> a.data[f], expert |-> b.data[f]]])

\* tf.reduce_sum(t, axis=1): the 2nd dimension is summed away; the terms of
\* each sum are kept in coordinate order.
ReduceSumAxis1(t) ==
    IF ~IsTensor(t) \/ Len(t.shape) < 2 THEN Raised
    ELSE LET st    == Stride(t.shape, 2)
             n     == t.shape[2]
             shape == SubSeq(t.shape, 1, 1) \o SubSeq(t.shape, 3, Len(t.shape))
         IN  Tensor(shape,
                    [g \in 1..Prod(shape) |->
                        [terms |-> [j \in 1..n |->
                            t.data[((g - 1) \div st) * (n * st) + (j - 1) * st
                                   + ((g - 1) % st) + 1]]]])

----------------------------------------------------------------------------
(* Layer-construction records. *)
NoReg == [isNone |-> TRUE, coef |-> Rat(0, 1)]
\* tf.keras.regularizers.l2(c)
L2(c) == [isNone |-> FALSE, coef |-> c]

\* normalizer_fn = None / no normalization involved
NoNorm ==
    [used |-> FALSE, synchronized |-> FALSE, axis |-> 0,
     momentum |-> Rat(0, 1), epsilon |-> Rat(0, 1)]
\* functools.partial(layers.BatchNormalization, synchronized=s) applied to
\* the keyword arguments axis, momentum, epsilon
BatchNorm(s, axis, momentum, epsilon) ==
    [used |-> TRUE, synchronized |-> s, axis |-> axis,
     momentum |-> momentum, epsilon |-> epsilon]

Layer(op, name, units, reg, norm) ==
    [op |-> op, name |-> name, units |-> units, reg |-> reg, norm |-> norm]

\* utils.context_gate(t, normalizer_fn, normalizer_params, ...): gates t
\* elementwise; the result has t's shape.
context_gate(t) == Map("context_gate", t)

\* utils.frame_pooling(t, method): pools across the frames axis of
\* [batch, frames, features].
frame_pooling(t) ==
    IF ~IsTensor(t) \/ Len(t.shape) # 3 THEN Raised
    ELSE Tensor(<<t.shape[1], t.shape[3]>>,
                [f \in 1..(t.shape[1] * t.shape[3]) |->
                    [layer |-> "pooled", row |-> (f - 1) \div t.shape[3],
                     unit |-> (f - 1) % t.shape[3]]])

----------------------------------------------------------------------------
(* nn_layers.LogisticModel.create_model *)
\* The result carries the returned dictionary (ret) and the layers the call
\* constructed (layers).
LogisticModel_create_model(a) ==
    [ret    |-> [predictions |-> Dense("logistic", a.vocab_size, a.model_input)],
     layers |-> <<Layer("Dense", "logistic", a.vocab_size, L2(a.l2_penalty), NoNorm)>>]

----------------------------------------------------------------------------
(* nn_layers.MoeModel.create_model *)
Moe_input(a) ==
    IF a.use_input_context_gate THEN context_gate(a.model_input) ELSE a.model_input

Moe_gate_reshape(gate_activations, a) ==
    IF a.vocab_as_last_dim
    THEN ReshapeInferFirst(gate_activations, <<a.num_mixtures + 1, a.vocab_size>>)
    ELSE ReshapeInferFirst(gate_activations, <<a.num_mixtures + 1>>)

Moe_expert_reshape(expert_activations, a) ==
    IF a.vocab_as_last_dim
    THEN ReshapeInferFirst(expert_activations, <<a.num_mixtures, a.vocab_size>>)
    ELSE ReshapeInferFirst(expert_activations, <<a.num_mixtures>>)

Moe_reduce_skip_first(gating_distribution, expert_distribution, a) ==
    ReduceSumAxis1(
        Multiply(SliceAxis1(gating_distribution, 1, a.num_mixtures + 1),
                 expert_distribution))

\* tf.reduce_sum(gating_distribution[:, :num_mixtures] * expert_distribution, axis=1)
Moe_reduce(gating_distribution, expert_distribution, a) ==
    ReduceSumAxis1(
        Multiply(SliceAxis1(gating_distribution, 0, a.num_mixtures),
                 expert_distribution))

Moe_final_reshape_never(final_probabilities, a) == final_probabilities

\* if not vocab_as_last_dim: reshape to [-1, vocab_size]
Moe_final_reshape(final_probabilities, a) ==
    IF ~a.vocab_as_last_dim
    THEN ReshapeInferFirst(final_probabilities, <<a.vocab_size>>)
    ELSE final_probabilities

MoeModel_create_model(a) ==
    LET x       == Moe_input(a)
        reg     == L2(a.l2_penalty)
        gate0   == Dense("gate", a.vocab_size * (a.num_mixtures + 1), x)
        expert0 == Dense("expert", a.vocab_size * a.num_mixtures, x)
        gating_distribution == SoftmaxAxis1(Moe_gate_reshape(gate0, a))
        expert_distribution == Sigmoid(Moe_expert_reshape(expert0, a))
        final   == Moe_final_reshape(
                       Moe_reduce(gating_distribution, expert_distribution, a), a)
        out     == IF a.use_output_context_gate THEN context_gate(final) ELSE final
        gateIn  == IF a.use_input_context_gate
                   THEN <<Layer("context_gate", "input_gate", 0, NoReg, a.normalizer)>>
                   ELSE <<>>
        gateOut == IF a.use_output_context_gate
                   THEN <<Layer("context_gate", "output_gate", 0, NoReg, a.normalizer)>>
                   ELSE <<>>
    IN  [ret    |-> [predictions |-> out],
         layers |-> gateIn
                    \o <<Layer("Dense", "gate", a.vocab_size * (a.num_mixtures + 1),
                               reg, NoNorm),
                         Layer("Dense", "expert", a.vocab_size * a.num_mixtures,
                               reg, NoNorm)>>
                    \o gateOut]

\* The classes of nn_layers that getattr(nn_layers, name) can return.
ClassifierNames == {"LogisticModel", "MoeModel"}

create_model(name, a) ==
    IF name = "LogisticModel" THEN LogisticModel_create_model(a)
    ELSE MoeModel_create_model(a)

----------------------------------------------------------------------------
(* A direct call of a classifier's create_model. *)
Penalties == {Rat(1, 100000), Rat(1, 100000000)}
NormSettings ==
    {BatchNorm(FALSE, -1, Rat(99, 100), Rat(1, 1000)),
     BatchNorm(TRUE, -1, Rat(9, 10), Rat(1, 100000))}

CallArgs ==
    [model_input : {SymbolicInput(<<b, NumFeatures>>) : b \in 1..MaxBatch},
     vocab_size : 1..MaxVocab,
     num_mixtures : 1..MaxMixtures,
     use_input_context_gate : BOOLEAN,
     use_output_context_gate : BOOLEAN,
     normalizer : NormSettings,
     vocab_as_last_dim : BOOLEAN,
     l2_penalty : Penalties]

NoCallArgs ==
    [model_input |-> Raised, vocab_size |-> 0, num_mixtures |-> 0,
     use_input_context_gate |-> FALSE, use_output_context_gate |-> FALSE,
     normalizer |-> NoNorm, vocab_as_last_dim |-> FALSE, l2_penalty |-> Rat(0, 1)]
NoReturn == [ret |-> [predictions |-> Raised], layers |-> <<>>]

MoeIdle == mpc = "idle" /\ margs = NoCallArgs /\ mret = NoReturn

MoeInit ==
    /\ mpc \in {"call_LogisticModel", "call_MoeModel"}
    /\ margs \in CallArgs
    /\ mret = NoReturn

CallLogisticModel ==
    /\ mpc = "call_LogisticModel"
    /\ mret' = LogisticModel_create_model(margs)
    /\ mpc' = "returned_LogisticModel"
    /\ UNCHANGED <<margs, dbofVars>>

CallMoeModel ==
    /\ mpc = "call_MoeModel"
    /\ mret' = MoeModel_create_model(margs)
    /\ mpc' = "returned_MoeModel"
    /\ UNCHANGED <<margs, dbofVars>>

----------------------------------------------------------------------------
(* yt8m_model.DbofModel *)
Momenta == {<<Rat(99, 100), Rat(1, 1000)>>, <<Rat(9, 10), Rat(1, 100000)>>}
WeightDecays == {None, Some(Rat(0, 1)), Some(Rat(1, 1000))}

Params ==
    [add_batch_norm : BOOLEAN,
     cluster_size : 0..MaxClusterSize,
     hidden_size : {HiddenSize},
     use_context_gate_cluster_layer : BOOLEAN,
     yt8m_agg_classifier_model : ClassifierNames \cup {"NoSuchModel"},
     agg_model : [num_mixtures : 1..MaxMixtures,
                  vocab_as_last_dim : BOOLEAN,
                  l2_penalty : Penalties]]

NoSelf ==
    [set |-> FALSE, num_classes |-> 0, use_sync_bn |-> FALSE,
     norm_momentum |-> Rat(0, 1), norm_epsilon |-> Rat(0, 1),
     l2_weight_decay |-> None, norm |-> FALSE]
NoAgg ==
    [called |-> FALSE, callee |-> "", keywords |-> {}, kwargs |-> NoCallArgs,
     result |-> NoReturn]
NoModel == [constructed |-> FALSE, inputs |-> Raised, outputs |-> Raised]

\* The constructor's arguments.  The batch dimension of input_specs is None
\* in the source (any batch); it is given the size MaxBatch here.
DbofInit ==
    /\ pc = "fields"
    /\ \E p \in Params, n \in 1..MaxVocab, s \in BOOLEAN, me \in Momenta,
          wd \in WeightDecays :
          cfg = [params |-> p, num_classes |-> n,
                 input_specs |-> <<MaxBatch, NumFrames, NumFeatures>>,
                 activation |-> "relu", use_sync_bn |-> s,
                 norm_momentum |-> me[1], norm_epsilon |-> me[2],
                 l2_weight_decay |-> wd]
    /\ self = NoSelf
    /\ built = <<>>
    /\ model_input = Raised
    /\ input_data = Raised
    /\ activation = Str
    /\ agg = NoAgg
    /\ model = NoModel

DbofIdle ==
    /\ pc = "idle"
    /\ cfg = [params |-> CHOOSE p \in Params : TRUE, num_classes |-> 0,
              input_specs |-> <<>>, activation |-> "", use_sync_bn |-> FALSE,
              norm_momentum |-> Rat(0, 1), norm_epsilon |-> Rat(0, 1),
              l2_weight_decay |-> None]
    /\ self = NoSelf
    /\ built = <<>>
    /\ model_input = Raised
    /\ input_data = Raised
    /\ activation = Str
    /\ agg = NoAgg
    /\ model = NoModel

\* The statement order of __init__ and get_dbof: the position after p.
NextPc(p) ==
    CASE p = "fields"        -> "input"
      [] p = "input"         -> "input_bn"
      [] p = "input_bn"      -> "cluster_dense"
      [] p = "cluster_dense" -> "cluster_norm"
      [] p = "cluster_norm"  -> "cluster_act"
      [] p = "cluster_act"   -> "context_gate"
      [] p = "context_gate"  -> "frame_pooling"
      [] p = "frame_pooling" -> "hidden_dense"
      [] p = "hidden_dense"  -> "hidden_norm"
      [] p = "hidden_norm"   -> "hidden_act"
      [] p = "hidden_act"    -> "aggregation"
      [] p = "aggregation"   -> "super_init"
      [] OTHER               -> "done"

l2_regularizer_is_not_none(l2_weight_decay) ==
    IF ~l2_weight_decay.isNone THEN L2(HalfOf(l2_weight_decay.val)) ELSE NoReg

\* l2(l2_weight_decay / 2.0) if l2_weight_decay else None
l2_regularizer(l2_weight_decay) ==
    IF ~l2_weight_decay.isNone /\ Truthy(l2_weight_decay.val)
    THEN L2(HalfOf(l2_weight_decay.val))
    ELSE NoReg

\* self._norm(axis=bn_axis, momentum=norm_momentum, epsilon=norm_epsilon),
\* self._norm being partial(BatchNormalization, synchronized=use_sync_bn)
bn_axis == -1
self_norm(slf, c) == BatchNorm(slf.norm, bn_axis, c.norm_momentum, c.norm_epsilon)

\* get_dbof, lines 96-127: the fields stored on the object.
SetFields ==
    /\ pc = "fields"
    /\ self' = [set |-> TRUE, num_classes |-> cfg.num_classes,
                use_sync_bn |-> cfg.use_sync_bn,
                norm_momentum |-> cfg.norm_momentum,
                norm_epsilon |-> cfg.norm_epsilon,
                l2_weight_decay |-> cfg.l2_weight_decay,
                norm |-> cfg.use_sync_bn]
    /\ pc' = NextPc(pc)
    /\ UNCHANGED <<cfg, built, model_input, input_data, activation, agg, model,
                   moeVars>>

\* model_input = Input(shape[1:]); input_data = l2_normalize(model_input, -1)
Input ==
    /\ pc = "input"
    /\ model_input' = SymbolicInput(cfg.input_specs)
    /\ input_data' = Map("l2_normalize", model_input')
    /\ built' = Append(built, Layer("l2_normalize", "l2_normalize", 0, NoReg, NoNorm))
    /\ pc' = NextPc(pc)
    /\ UNCHANGED <<cfg, self, activation, agg, model, moeVars>>

\* if params.add_batch_norm: input_data = input_bn(input_data)
InputBn ==
    /\ pc = "input_bn"
    /\ IF cfg.params.add_batch_norm
       THEN /\ built' = Append(built, Layer("BatchNormalization", "input_bn", 0,
                                            NoReg, self_norm(self, cfg)))
            /\ input_data' = Map("input_bn", input_data)
       ELSE UNCHANGED <<built, input_data>>
    /\ pc' = NextPc(pc)
    /\ UNCHANGED <<cfg, self, model_input, activation, agg, model, moeVars>>

\* if params.cluster_size > 0: activation = Dense(cluster_size, ...)(input_data)
ClusterDense ==
    /\ pc = "cluster_dense"
    /\ IF cfg.params.cluster_size > 0
       THEN /\ built' = Append(built, Layer("Dense", "cluster_dense",
                                            cfg.params.cluster_size,
                                            l2_regularizer(cfg.l2_weight_decay),
                                            NoNorm))
            /\ activation' = Dense("cluster", cfg.params.cluster_size, input_data)
       ELSE UNCHANGED <<built, activation>>
    /\ pc' = NextPc(pc)
    /\ UNCHANGED <<cfg, self, model_input, input_data, agg, model, moeVars>>

\* lines 156-169: cluster_bn if params.add_batch_norm, else cluster_biases
cluster_norm_layers(c, slf) ==
    IF c.params.add_batch_norm
    THEN <<Layer("BatchNormalization", "cluster_bn", 0, NoReg, self_norm(slf, c))>>
    ELSE <<Layer("Variable", "cluster_biases", c.params.cluster_size, NoReg, NoNorm)>>

\* The layer or variable is constructed first; applying it to `activation`
\* raises when `activation` is still the activation's name (no cluster Dense
\* ran because params.cluster_size is 0).
ClusterNorm ==
    /\ pc = "cluster_norm"
    /\ built' = built \o cluster_norm_layers(cfg, self)
    /\ IF IsTensor(activation)
       THEN /\ activation' = Map(built'[Len(built')].name, activation)
            /\ pc' = NextPc(pc)
       ELSE /\ activation' = Raised
            /\ pc' = "raised_in_cluster_stage"
    /\ UNCHANGED <<cfg, self, model_input, input_data, agg, model, moeVars>>

\* activation = self._act_fn(activation)
ClusterAct ==
    /\ pc = "cluster_act"
    /\ built' = Append(built, Layer("act_fn", "cluster_act", 0, NoReg, NoNorm))
    /\ activation' = Map(cfg.activation, activation)
    /\ pc' = NextPc(pc)
    /\ UNCHANGED <<cfg, self, model_input, input_data, agg, model, moeVars>>

\* if params.use_context_gate_cluster_layer: activation = utils.context_gate(...)
ContextGate ==
    /\ pc = "context_gate"
    /\ IF cfg.params.use_context_gate_cluster_layer
       THEN /\ built' = Append(built, Layer("context_gate", "context_gate_bn", 0,
                                            l2_regularizer(cfg.l2_weight_decay),
                                            self_norm(self, cfg)))
            /\ activation' = context_gate(activation)
       ELSE UNCHANGED <<built, activation>>
    /\ pc' = NextPc(pc)
    /\ UNCHANGED <<cfg, self, model_input, input_data, agg, model, moeVars>>

\* activation = utils.frame_pooling(activation, params.pooling_method)
FramePooling ==
    /\ pc = "frame_pooling"
    /\ built' = Append(built, Layer("frame_pooling", "frame_pooling", 0, NoReg, NoNorm))
    /\ activation' = frame_pooling(activation)
    /\ pc' = NextPc(pc)
    /\ UNCHANGED <<cfg, self, model_input, input_data, agg, model, moeVars>>

\* activation = Dense(params.hidden_size, ...)(activation)
HiddenDense ==
    /\ pc = "hidden_dense"
    /\ built' = Append(built, Layer("Dense", "hidden_dense", cfg.params.hidden_size,
                                    l2_regularizer(cfg.l2_weight_decay), NoNorm))
    /\ activation' = Dense("hidden1", cfg.params.hidden_size, activation)
    /\ pc' = NextPc(pc)
    /\ UNCHANGED <<cfg, self, model_input, input_data, agg, model, moeVars>>

\* lines 199-213: hidden1_bn if params.add_batch_norm, else hidden1_biases
hidden_norm_layers(c, slf) ==
    IF c.params.add_batch_norm
    THEN <<Layer("BatchNormalization", "hidden1_bn", 0, NoReg, self_norm(slf, c))>>
    ELSE <<Layer("Variable", "hidden1_biases", c.params.hidden_size, NoReg, NoNorm)>>

HiddenNorm ==
    /\ pc = "hidden_norm"
    /\ built' = built \o hidden_norm_layers(cfg, self)
    /\ activation' = Map(built'[Len(built')].name, activation)
    /\ pc' = NextPc(pc)
    /\ UNCHANGED <<cfg, self, model_input, input_data, agg, model, moeVars>>

\* activation = self._act_fn(activation); return model_input, activation
HiddenAct ==
    /\ pc = "hidden_act"
    /\ built' = Append(built, Layer("act_fn", "hidden_act", 0, NoReg, NoNorm))
    /\ activation' = Map(cfg.activation, activation)
    /\ pc' = NextPc(pc)
    /\ UNCHANGED <<cfg, self, model_input, input_data, agg, model, moeVars>>

getattr_nn_layers_with_default(name) ==
    IF name \in ClassifierNames
    THEN [found |-> TRUE, cls |-> name]
    ELSE [found |-> TRUE, cls |-> "LogisticModel"]

\* getattr(nn_layers, name): the class, or AttributeError
getattr_nn_layers(name) ==
    IF name \in ClassifierNames
    THEN [found |-> TRUE, cls |-> name]
    ELSE [found |-> FALSE, cls |-> name]

aggregation_normalizer_defaults(slf) ==
    BatchNorm(slf.use_sync_bn, -1, Rat(99, 100), Rat(1, 1000))

\* normalizer_fn = partial(BatchNormalization, synchronized=self._use_sync_bn)
\* normalizer_params = dict(axis=-1, momentum=self._norm_momentum,
\*                          epsilon=self._norm_epsilon)
aggregation_normalizer(slf) ==
    BatchNorm(slf.use_sync_bn, -1, slf.norm_momentum, slf.norm_epsilon)

\* The arguments of aggregated_model().create_model(...), lines 229-237;
\* the two context-gate flags are not passed and take their defaults.
aggregation_kwargs(c, slf, x) ==
    [model_input |-> x,
     vocab_size |-> slf.num_classes,
     num_mixtures |-> c.params.agg_model.num_mixtures,
     use_input_context_gate |-> FALSE,
     use_output_context_gate |-> FALSE,
     normalizer |-> aggregation_normalizer(slf),
     vocab_as_last_dim |-> c.params.agg_model.vocab_as_last_dim,
     l2_penalty |-> c.params.agg_model.l2_penalty]

\* The keywords the call site writes.
aggregation_keywords ==
    {"model_input", "vocab_size", "num_mixtures", "normalizer_fn",
     "normalizer_params", "vocab_as_last_dim", "l2_penalty"}

\* output = self.get_aggregation(model_input=activation)
Aggregation ==
    /\ pc = "aggregation"
    /\ LET cls == getattr_nn_layers(cfg.params.yt8m_agg_classifier_model)
           kw  == aggregation_kwargs(cfg, self, activation)
       IN  IF cls.found
           THEN /\ agg' = [called |-> TRUE, callee |-> cls.cls,
                           keywords |-> aggregation_keywords, kwargs |-> kw,
                           result |-> create_model(cls.cls, kw)]
                /\ built' = Append(built, Layer("classifier", cls.cls, kw.vocab_size,
                                                L2(kw.l2_penalty), kw.normalizer))
                /\ pc' = NextPc(pc)
           ELSE /\ pc' = "raised_AttributeError"
                /\ UNCHANGED <<agg, built>>
    /\ UNCHANGED <<cfg, self, model_input, input_data, activation, model, moeVars>>

\* dict.get(key) on the dictionary create_model returns: its only key is
\* "predictions"; any other key gives None.
dict_get(d, key) ==
    IF key = "predictions" THEN d.predictions ELSE Raised

\* super().__init__(inputs=model_input, outputs=output.get("predictions"))
SuperInit ==
    /\ pc = "super_init"
    /\ model' = [constructed |-> TRUE, inputs |-> model_input,
                 outputs |-> dict_get(agg.result.ret, "predictions")]
    /\ pc' = NextPc(pc)
    /\ UNCHANGED <<cfg, self, built, model_input, input_data, activation, agg,
                   moeVars>>

----------------------------------------------------------------------------
(* Specifications. *)
Init == DbofInit /\ MoeIdle

Next ==
    \/ SetFields
    \/ Input
    \/ InputBn
    \/ ClusterDense
    \/ ClusterNorm
    \/ ClusterAct
    \/ ContextGate
    \/ FramePooling
    \/ HiddenDense
    \/ HiddenNorm
    \/ HiddenAct
    \/ Aggregation
    \/ SuperInit

\* Constructing a DbofModel.
Spec == Init /\ [][Next]_vars

MoeSpecInit == MoeInit /\ DbofIdle

MoeNext ==
    \/ CallLogisticModel
    \/ CallMoeModel

\* Calling a classifier's create_model directly.
MoeSpec == MoeSpecInit /\ [][MoeNext]_vars

----------------------------------------------------------------------------
(* Vocabulary of the properties. *)
Key(l) == IF l.op = "classifier" THEN "classifier" ELSE l.name
Keys == [i \in 1..Len(built) |-> Key(built[i])]
Issued(k) == \E i \in 1..Len(built) : Key(built[i]) = k
Count(k) == Cardinality({i \in 1..Len(built) : Key(built[i]) = k})
LayerOf(k) == built[CHOOSE i \in 1..Len(built) : Key(built[i]) = k]

RECURSIVE SelectKeys(_, _)
SelectKeys(seq, keep) ==
    IF seq = <<>> THEN <<>>
    ELSE IF Head(seq) \in keep THEN <<Head(seq)>> \o SelectKeys(Tail(seq), keep)
    ELSE SelectKeys(Tail(seq), keep)
IsPrefix(a, b) == Len(a) <= Len(b) /\ SubSeq(b, 1, Len(a)) = a

\* The fixed order of the construction steps; a bracketed step is present
\* only under its flag, and of each norm-or-bias pair the flag selects one.
FixedOrder(p) ==
    SelectKeys(
        <<"l2_normalize", "input_bn", "cluster_dense", "cluster_bn", "cluster_biases",
          "cluster_act", "context_gate_bn", "frame_pooling", "hidden_dense",
          "hidden1_bn", "hidden1_biases", "hidden_act", "classifier">>,
        {"l2_normalize", "cluster_dense", "cluster_act", "frame_pooling",
         "hidden_dense", "hidden_act", "classifier"}
        \cup (IF p.add_batch_norm THEN {"input_bn", "cluster_bn", "hidden1_bn"}
              ELSE {"cluster_biases", "hidden1_biases"})
        \cup (IF p.use_context_gate_cluster_layer THEN {"context_gate_bn"} ELSE {}))

\* get_dbof has ended: it returned (the constructor is at or past
\* get_aggregation) or it raised.
GetDbofEnded ==
    pc \in {"aggregation", "super_init", "done", "raised_AttributeError",
            "raised_in_cluster_stage"}

----------------------------------------------------------------------------
(* C1 *)
\* C1 (as claimed): for every configuration, when get_dbof has ended, each
\* of the cluster stage and the hidden stage has applied exactly one of
\* {batch normalization, learned bias}: with add_batch_norm exactly input_bn,
\* cluster_bn and hidden1_bn and no bias variable; without it no such
\* normalization layer and both cluster_biases and hidden1_biases.
C1_ExactlyOneOfNormOrBias ==
    GetDbofEnded =>
        IF cfg.params.add_batch_norm
        THEN /\ Count("input_bn") = 1 /\ Count("cluster_bn") = 1
             /\ Count("hidden1_bn") = 1
             /\ ~Issued("cluster_biases") /\ ~Issued("hidden1_biases")
        ELSE /\ ~Issued("input_bn") /\ ~Issued("cluster_bn") /\ ~Issued("hidden1_bn")
             /\ Count("cluster_biases") = 1 /\ Count("hidden1_biases") = 1

\* C1, restricted to params.cluster_size > 0 (the configurations in which
\* the cluster stage does not raise): the same statement, and at no time
\* does a stage hold both a normalization layer and a bias.
C1_ExactlyOneWhenClustered ==
    /\ ~(Issued("cluster_bn") /\ Issued("cluster_biases"))
    /\ ~(Issued("hidden1_bn") /\ Issued("hidden1_biases"))
    /\ cfg.params.cluster_size > 0 => C1_ExactlyOneOfNormOrBias

----------------------------------------------------------------------------
(* C2 *)
\* C2 (as claimed): for every configuration the steps issued so far are the
\* first steps of the one fixed order (L2-normalize, [input_bn], cluster
\* Dense, cluster norm-or-bias, activation, [context gate], frame pooling,
\* hidden Dense, hidden norm-or-bias, activation, classifier), and a
\* constructed model has issued all of them, the classifier last.
C2_FixedOrderEveryConfiguration ==
    /\ IsPrefix(Keys, FixedOrder(cfg.params))
    /\ pc = "done" => Keys = FixedOrder(cfg.params)

\* C2, restricted to params.cluster_size > 0.
C2_FixedOrderWhenClustered ==
    cfg.params.cluster_size > 0 => C2_FixedOrderEveryConfiguration

\* With cluster_size > 0 a full construction with every optional step is reached.
C2_FullConstruction ==
    /\ pc = "done" /\ Len(built) = 11
    /\ cfg.params.use_context_gate_cluster_layer /\ cfg.params.add_batch_norm

----------------------------------------------------------------------------
(* C3 *)
MoeReturned == mpc = "returned_MoeModel"
GatesDisabled == ~margs.use_input_context_gate /\ ~margs.use_output_context_gate

\* C3: with the context gates disabled, MoeModel.create_model returns
\* predictions of shape batch_size x vocab_size, in both layouts.
C3_MoePredictionShape ==
    (MoeReturned /\ GatesDisabled) =>
        /\ IsTensor(mret.ret.predictions)
        /\ mret.ret.predictions.shape
               = <<margs.model_input.shape[1], margs.vocab_size>>

C3_Witness ==
    /\ MoeReturned /\ GatesDisabled
    /\ ~margs.vocab_as_last_dim
    /\ margs.model_input.shape[1] = 2 /\ margs.vocab_size = 2
    /\ margs.num_mixtures = 2
    /\ mret.ret.predictions.shape = <<2, 2>>

----------------------------------------------------------------------------
(* C4 *)
\* Position of element e in S ordered by unit (0-based).
RankIn(e, S) == Cardinality({d \in S : d.unit < e.unit})

\* The sum that is the final probability at flat position g (1-based) of
\* the predictions: row (g-1) \div vocab_size.
ClassSumOk(g) ==
    LET terms   == mret.ret.predictions.data[g].terms
        row     == (g - 1) \div margs.vocab_size
        M       == margs.num_mixtures
        group   == terms[1].gate.den
        experts == {terms[j].expert.x : j \in 1..Len(terms)}
    IN  /\ Len(terms) = M
        /\ Cardinality(group) = M + 1
        /\ \A d \in group : d.layer = "gate" /\ d.row = row
        /\ Cardinality(experts) = M
        /\ \A j \in 1..Len(terms) :
              /\ terms[j].gate.den = group
              /\ terms[j].gate.num \in group
              /\ RankIn(terms[j].gate.num, group) = j - 1
              /\ terms[j].expert.fn = "sigmoid"
              /\ terms[j].expert.x.layer = "expert"
              /\ terms[j].expert.x.row = row
              /\ RankIn(terms[j].expert.x, experts) = j - 1

GateGroup(g) == mret.ret.predictions.data[g].terms[1].gate.den
ExpertGroup(g) ==
    {mret.ret.predictions.data[g].terms[j].expert.x :
        j \in 1..Len(mret.ret.predictions.data[g].terms)}

\* C4: without an output context gate, the gate layer has num_mixtures + 1
\* logits per class and the expert layer num_mixtures; every final
\* probability is a sum of exactly num_mixtures terms, term i being
\* (softmax weight of gate i over all num_mixtures + 1 gate logits of that
\* class and row) x sigmoid(expert logit i of that class and row); the gate
\* logit at index num_mixtures of each class is in the softmax and in no
\* term; classes do not share logits.  Both layouts.
C4_MoeMixture ==
    (MoeReturned /\ ~margs.use_output_context_gate) =>
        LET n == Len(mret.ret.predictions.data)
        IN  /\ \E i \in 1..Len(mret.layers) :
                  /\ mret.layers[i].name = "gate"
                  /\ mret.layers[i].units
                         = margs.vocab_size * (margs.num_mixtures + 1)
            /\ \E i \in 1..Len(mret.layers) :
                  /\ mret.layers[i].name = "expert"
                  /\ mret.layers[i].units = margs.vocab_size * margs.num_mixtures
            /\ n = margs.model_input.shape[1] * margs.vocab_size
            /\ \A g \in 1..n : ClassSumOk(g)
            /\ \A g, h \in 1..n :
                  g # h => /\ GateGroup(g) \cap GateGroup(h) = {}
                           /\ ExpertGroup(g) \cap ExpertGroup(h) = {}

C4_Witness ==
    /\ MoeReturned /\ GatesDisabled
    /\ margs.vocab_as_last_dim
    /\ margs.vocab_size = 2 /\ margs.num_mixtures = 2
    /\ \E d \in GateGroup(2) :
          /\ RankIn(d, GateGroup(2)) = margs.num_mixtures
          /\ \A j \in 1..2 : mret.ret.predictions.data[2].terms[j].gate.num # d

----------------------------------------------------------------------------
(* C5 *)
\* C5: whenever get_aggregation made its call, the callee is the class the
\* configuration names, it got vocab_size = num_classes and the call site's
\* keyword set (the same for either class), it returned a dictionary with a
\* tensor under "predictions", and a constructed model's output is that
\* tensor; with a name that is no class of nn_layers no call is made and no
\* model is constructed.
C5_AggregationCall ==
    /\ agg.called =>
          /\ agg.callee \in ClassifierNames
          /\ agg.callee = cfg.params.yt8m_agg_classifier_model
          /\ agg.kwargs.vocab_size = cfg.num_classes
          /\ agg.kwargs.model_input = activation
          /\ agg.keywords = aggregation_keywords
          /\ IsTensor(agg.result.ret.predictions)
    /\ model.constructed =>
          /\ agg.called
          /\ model.outputs = agg.result.ret.predictions
    /\ pc \in {"super_init", "done"} => agg.called
    /\ cfg.params.yt8m_agg_classifier_model \notin ClassifierNames =>
          /\ ~agg.called /\ ~model.constructed
          /\ pc \notin {"super_init", "done"}

C5_Witness ==
    /\ pc = "done" /\ model.constructed
    /\ agg.callee = "MoeModel"
    /\ cfg.num_classes = 2
    /\ model.outputs.shape = <<MaxBatch, 2>>

----------------------------------------------------------------------------
(* C6 *)
ConfiguredNorm ==
    BatchNorm(cfg.use_sync_bn, -1, cfg.norm_momentum, cfg.norm_epsilon)

\* C6: every normalization the constructor builds or hands on (input_bn,
\* cluster_bn, context_gate_bn, hidden1_bn, the classifier's
\* normalizer_fn/normalizer_params) has synchronized = use_sync_bn,
\* axis = -1, momentum = norm_momentum, epsilon = norm_epsilon.
C6_NormSettings ==
    /\ \A i \in 1..Len(built) :
          /\ built[i].norm.used => built[i].norm = ConfiguredNorm
          /\ built[i].name \in {"input_bn", "cluster_bn", "context_gate_bn",
                                "hidden1_bn"} => built[i].norm.used
          /\ built[i].op = "classifier" => built[i].norm.used
    /\ agg.called => agg.kwargs.normalizer = ConfiguredNorm

C6_Witness ==
    /\ pc = "done"
    /\ cfg.use_sync_bn /\ cfg.norm_momentum = Rat(9, 10)
    /\ Issued("input_bn") /\ Issued("cluster_bn") /\ Issued("context_gate_bn")
    /\ Issued("hidden1_bn")
    /\ agg.kwargs.normalizer.momentum = Rat(9, 10)

----------------------------------------------------------------------------
(* C7 *)
Regularized == {"cluster_dense", "context_gate_bn", "hidden_dense"}

\* C7: the cluster Dense, the cluster context gate and the hidden Dense get
\* a regularizer iff l2_weight_decay is given and non-zero, and then the L2
\* regularizer of coefficient l2_weight_decay / 2; the classifier's
\* coefficient is params.agg_model.l2_penalty whatever l2_weight_decay is.
C7_Regularizers ==
    /\ \A i \in 1..Len(built) :
          built[i].name \in Regularized =>
              /\ built[i].reg.isNone
                     <=> (cfg.l2_weight_decay.isNone
                          \/ RatEq(cfg.l2_weight_decay.val, Rat(0, 1)))
              /\ ~built[i].reg.isNone =>
                     RatEq(Rat(2 * built[i].reg.coef[1], built[i].reg.coef[2]),
                           cfg.l2_weight_decay.val)
    /\ pc = "done" =>
          /\ Issued("cluster_dense") /\ Issued("hidden_dense")
          /\ cfg.params.use_context_gate_cluster_layer => Issued("context_gate_bn")
    /\ agg.called =>
          /\ agg.kwargs.l2_penalty = cfg.params.agg_model.l2_penalty
          /\ Len(agg.result.layers) >= 1
          /\ \A i \in 1..Len(agg.result.layers) :
                agg.result.layers[i].op = "Dense" =>
                    agg.result.layers[i].reg = L2(cfg.params.agg_model.l2_penalty)

C7_Witness ==
    /\ pc = "done"
    /\ cfg.l2_weight_decay = Some(Rat(1, 1000))
    /\ Issued("context_gate_bn")
    /\ \A k \in Regularized : RatEq(LayerOf(k).reg.coef, Rat(1, 2000))
    /\ agg.callee = "MoeModel"

====
